---- MODULE Spec2Model ----
(***************************************************************************)
(* Model of the header-updating pre-commit hook.                           *)
(*                                                                         *)
(* Two packages of the repository implement the same class HeaderUpdater:  *)
(*   src/src/sostrades_pre_commit/update_headers.py   (impl = "sostrades") *)
(*   src/src/header_updater_hook/update_headers.py    (impl = "hook")      *)
(* Both are modelled; the variable impl says which one a behaviour runs.   *)
(*                                                                         *)
(* Text is modelled as the str value Python reads and writes: a sequence   *)
(* of tokens, each token an atomic piece of text (a record [k, v]).  The   *)
(* string is the concatenation of its tokens.  startswith, str.replace,    *)
(* re.search and str.split are computed on token sequences the way Python  *)
(* computes them on the characters.                                        *)
(***************************************************************************)
EXTENDS Integers, Sequences, FiniteSets, TLC

(* ------------------------------ bounds -------------------------------- *)

\* Days are 1..MaxDay; day 0 is a date before the first run.
MaxDay == 3

\* A working tree of one file: its content is made of at most MaxSegs segments.
MaxSegs == 2

\* main() is given at most MaxList file names.
MaxList == 2

\* The paths a working tree can hold.
Paths == {"a", "b"}

Days == 1..MaxDay

(* ------------------------------ tokens -------------------------------- *)

Tok(k, v) == [k |-> k, v |-> v]

\* "\n"
NL == Tok("NL", 0)
\* "'''"
QUOTES == Tok("QUOTES", 0)
\* " "
SP == Tok("SP", 0)
\* "-"
DASH == Tok("DASH", 0)
\* a piece of body text without space, dash or newline
BODY == Tok("BODY", 0)
\* the text of apache_license.txt
APACHE == Tok("APACHE", 0)

\* datetime.today().strftime("%Y") on day d: two days per year from 2024 on.
YearOf(d) == 2024 + (d \div 2)

\* datetime.today().strftime("%Y/%m/%d") on day d
DateStr(d) == Tok("DATE", d)

\* AIRBUS_COPYRIGHT = "Copyright 2022 Airbus SAS"
AIRBUS_COPYRIGHT == Tok("AIRBUS", 2022)

\* CAP_COPYRIGHT.format(y) = "Copyright <y> Capgemini"
CAP_COPYRIGHT(y) == Tok("CAP", y)

\* MODIFICATIONS_PATTERN up to its placeholder, without the space before it:
\* "Modifications on"
MODIFICATIONS_ON == Tok("MODIF", 0)

(* --------------------------- str operations ---------------------------- *)

\* The element of a one-element set.  Only({ e(x) : x \in {v} }) is e(v), with
\* v computed once.
Only(S) == CHOOSE x \in S : TRUE

\* s.startswith(p)
StartsWith(s, p) ==
    /\ Len(s) >= Len(p)
    /\ \A h \in 1..Len(p) : s[h] = p[h]

\* s[n:]
Drop(s, n) == SubSeq(s, n + 1, Len(s))

\* old occurs in s at position i.
OccursAt(s, old, i) ==
    /\ i + Len(old) - 1 <= Len(s)
    /\ \A h \in 1..Len(old) : s[i + h - 1] = old[h]

SetMin(S) == CHOOSE x \in S : \A y \in S : x <= y
SetMax(S) == CHOOSE x \in S : \A y \in S : x >= y

\* s[i:].replace(old, new), for a non-empty old: every occurrence that does
\* not overlap an earlier one, from the left.
RECURSIVE ReplaceFrom(_, _, _, _)
ReplaceFrom(s, i, old, new) ==
    LET hits == { j \in i..(Len(s) - Len(old) + 1) : OccursAt(s, old, j) }
    IN IF hits = {} THEN SubSeq(s, i, Len(s))
       ELSE Only({ SubSeq(s, i, j - 1) \o new
                       \o ReplaceFrom(s, j + Len(old), old, new) :
                   j \in {SetMin(hits)} })

\* s.replace(old, new)
Replace(s, old, new) == ReplaceFrom(s, 1, old, new)

\* "sep".join(parts)
RECURSIVE Join(_, _)
Join(sep, parts) ==
    IF parts = <<>> THEN <<>>
    ELSE IF Len(parts) = 1 THEN Head(parts)
    ELSE Head(parts) \o sep \o Join(sep, Tail(parts))

\* s.split(sep) for a one-token separator: the list of the pieces.
RECURSIVE Split(_, _)
Split(s, sep) ==
    IF \A i \in 1..Len(s) : s[i] # sep THEN <<s>>
    ELSE LET i == CHOOSE j \in 1..Len(s) :
                      s[j] = sep /\ \A h \in 1..(j - 1) : s[h] # sep
         IN <<SubSeq(s, 1, i - 1)>> \o Split(Drop(s, i), sep)

(* ------------------------- HeaderUpdater.__init__ ---------------------- *)

\* The two packages of the repository.
Impls == {"sostrades", "hook"}

\* HEADER_PATTERN.format(inner): three quotes, newline, inner, newline, three
\* quotes, and a final newline in sostrades_pre_commit only.
HEADER_PATTERN(im, inner) ==
    <<QUOTES, NL>> \o inner \o <<NL, QUOTES>>
        \o (IF im = "sostrades" THEN <<NL>> ELSE <<>>)

\* airbus_license = AIRBUS_COPYRIGHT, blank line, apache_license
airbus_header(im) ==
    HEADER_PATTERN(im, <<AIRBUS_COPYRIGHT, NL, NL, APACHE>>)

\* new_cap_copyright = CAP_COPYRIGHT.format(current_year)
new_cap_copyright(d) == CAP_COPYRIGHT(YearOf(d))

\* cap_license = new_cap_copyright, blank line, apache_license
cap_header(im, d) ==
    HEADER_PATTERN(im, <<new_cap_copyright(d), NL, NL, APACHE>>)

\* modif_line = MODIFICATIONS_PATTERN.format(today), space, new_cap_copyright
modif_line_today(d) ==
    <<MODIFICATIONS_ON, SP, DateStr(d), SP, new_cap_copyright(d)>>

\* modified_license = the lines AIRBUS_COPYRIGHT, modif_line, empty line and
\* apache_license joined by newlines; modified_header wraps it.
modified_header(im, d) ==
    HEADER_PATTERN(im,
        Join(<<NL>>, << <<AIRBUS_COPYRIGHT>>, modif_line_today(d), <<>>, <<APACHE>> >>))

\* updated_modified_pattern.format(first):
\* Modifications on <first>-<today> Copyright <year> Capgemini
updated_modified_pattern(d, first) ==
    <<MODIFICATIONS_ON, SP>> \o first \o <<DASH, DateStr(d), SP, new_cap_copyright(d)>>

(* ------------------- re.search(start_modif_regex, s) ------------------- *)

\* The dot of the regex does not match a newline; the license text has
\* several lines.
HasNewline(t) == t.k \in {"NL", "APACHE"}

\* Copyright 20(..) Capgemini: any year of the form 20xx.
IsCapCopyright20(t) == t.k = "CAP" /\ t.v \div 100 = 20

\* The positions j of the space before a Capgemini copyright that can end a
\* match of start_modif_regex starting at i: the group (.+) is s[i+2 .. j-1],
\* at least one character, none a newline.
MatchEnds(s, i) ==
    IF i + 1 > Len(s) \/ s[i] # MODIFICATIONS_ON \/ s[i + 1] # SP THEN {}
    ELSE { j \in (i + 3)..(Len(s) - 1) :
             /\ s[j] = SP
             /\ IsCapCopyright20(s[j + 1])
             /\ \A h \in (i + 2)..(j - 1) : ~HasNewline(s[h]) }

MatchStarts(s) == { i \in 1..Len(s) : MatchEnds(s, i) # {} }

\* re_match is None
NoMatch(s) == MatchStarts(s) = {}

\* re_match.group(0): the leftmost match, its group (.+) as long as it can be.
MatchGroup0(s) ==
    LET i == SetMin(MatchStarts(s))
        j == SetMax(MatchEnds(s, i))
    IN SubSeq(s, i, j + 1)

(* ------------------ modif_line.split(" ")[2].split("-") ---------------- *)

\* The words of a token whose text holds spaces.
Words(t) ==
    CASE t.k = "MODIF"  -> <<Tok("Modifications", 0), SP, Tok("on", 0)>>
      [] t.k = "CAP"    -> <<Tok("Copyright", 0), SP, Tok("YEAR", t.v), SP,
                             Tok("Capgemini", 0)>>
      [] t.k = "AIRBUS" -> <<Tok("Copyright", 0), SP, Tok("YEAR", t.v), SP,
                             Tok("Airbus", 0), SP, Tok("SAS", 0)>>
      [] OTHER          -> <<t>>

RECURSIVE Expand(_)
Expand(s) == IF s = <<>> THEN <<>> ELSE Words(Head(s)) \o Expand(Tail(s))

\* modif_dates = modif_line.split(" ")[2].split("-")
modif_dates(modif_line) == Split(Split(Expand(modif_line), SP)[3], DASH)

\* A slip: the last date of the field is kept instead of the first.
first_modif_date_last(modif_line) ==
    modif_dates(modif_line)[Len(modif_dates(modif_line))]

\* first_modif_date = modif_dates[0]
first_modif_date(modif_line) == modif_dates(modif_line)[1]

\* second_modif_date == self.today; second_modif_date is None for one date
SecondIsToday(modif_line, d) ==
    /\ Len(modif_dates(modif_line)) > 1
    /\ modif_dates(modif_line)[2] = <<DateStr(d)>>

(* --------------------------- the two rules ----------------------------- *)

\* The content f.read() returns after file_path.open(mode): mode w+ truncates
\* the file when it opens it, the default mode r leaves it as it is.
OpenContent(mode, c) == IF mode = "w+" THEN <<>> ELSE c

\* A slip: the content read is dropped, only the header is written.
AddedNewContent_header_only(header, c) == header

\* new_file_content = self.cap_header + file_content
AddedNewContent(header, c) == header \o c

\* The result of a rule: the content of the file after the call, the value
\* the call returns, whether the file was opened for writing, and whether
\* the call raised an exception instead of returning.
Result(c, ret, wrote, raised) ==
    [content |-> c, ret |-> ret, wrote |-> wrote, raised |-> raised]

\* A slip: the content is compared with the header instead of its start.
check_header_added_whole_file(c, d) ==
    IF c = cap_header("sostrades", d)
    THEN Result(c, FALSE, FALSE, FALSE)
    ELSE Result(AddedNewContent(cap_header("sostrades", d), c), TRUE, TRUE, FALSE)

\* HeaderUpdater.check_header_added of sostrades_pre_commit
check_header_added_sostrades(c, d) ==
    LET file_content == OpenContent("r", c)
    IN IF StartsWith(file_content, cap_header("sostrades", d))
       THEN Result(c, FALSE, FALSE, FALSE)
       ELSE Result(AddedNewContent(cap_header("sostrades", d), file_content),
                   TRUE, TRUE, FALSE)

\* HeaderUpdater.check_header_added of header_updater_hook
check_header_added_hook(c, d) ==
    LET file_content == OpenContent("w+", c)
    IN IF StartsWith(file_content, cap_header("hook", d))
       THEN Result(file_content, FALSE, TRUE, FALSE)
       ELSE Result(AddedNewContent(cap_header("hook", d), file_content),
                   TRUE, TRUE, FALSE)

\* HeaderUpdater.check_header_modified of sostrades_pre_commit
check_header_modified_sostrades(c, d) ==
    LET file_content == OpenContent("r", c)
    IN IF StartsWith(file_content, airbus_header("sostrades"))
       THEN Result(Replace(file_content, airbus_header("sostrades"),
                           modified_header("sostrades", d)),
                   TRUE, TRUE, FALSE)
       ELSE IF ~NoMatch(file_content)
       THEN Only({ IF SecondIsToday(modif_line, d)
                   THEN Result(c, FALSE, FALSE, FALSE)
                   ELSE Only({ Result(Replace(file_content, modif_line,
                                              updated_modif_line),
                                      TRUE, TRUE, FALSE) :
                               updated_modif_line \in
                                   {updated_modified_pattern(
                                        d, first_modif_date(modif_line))} }) :
                   modif_line \in {MatchGroup0(file_content)} })
       ELSE Result(c, FALSE, FALSE, FALSE)

\* HeaderUpdater.check_header_modified of header_updater_hook: the file is
\* closed when the with block ends, so the write of the first branch raises.
check_header_modified_hook(c, d) ==
    LET file_content == OpenContent("w+", c)
    IN IF StartsWith(file_content, airbus_header("hook"))
       THEN Result(file_content, FALSE, TRUE, TRUE)
       ELSE Result(file_content, FALSE, TRUE, FALSE)

check_header_added(im, c, d) ==
    IF im = "sostrades" THEN check_header_added_sostrades(c, d)
    ELSE check_header_added_hook(c, d)

check_header_modified(im, c, d) ==
    IF im = "sostrades" THEN check_header_modified_sostrades(c, d)
    ELSE check_header_modified_hook(c, d)

(* -------------------- HeaderUpdater.update_headers --------------------- *)

\* The value of a Python expression that may be None: <<>> is None, <<n>> is
\* the int n (True is 1, False is 0).
PyNone == <<>>
PyInt(n) == <<n>>
PyBool(b) == IF b THEN 1 ELSE 0

\* file_name in added / file_name in modified.  sostrades_pre_commit keeps the
\* a_path strings of the diff entries; header_updater_hook keeps the diff
\* entries themselves, and a str equals no diff entry.
InChangeList(im, file_name, paths) ==
    IF im = "sostrades" THEN file_name \in paths ELSE FALSE

\* A slip: a path in neither list is handled as a modified file.
Dispatch_else_modified(im, file_name, added, modified) ==
    IF InChangeList(im, file_name, added) THEN "added" ELSE "modified"

\* The rule the loop body applies to file_name.
Dispatch(im, file_name, added, modified) ==
    IF InChangeList(im, file_name, added) THEN "added"
    ELSE IF InChangeList(im, file_name, modified) THEN "modified"
    ELSE "skip"

\* The state of the loop of update_headers: the files on disk, the value of
\* files_were_changed, the rule applications made so far, and whether an
\* exception has ended the loop.
LoopState(fs, changed, log) ==
    [fs |-> fs, changed |-> changed, log |-> log, raised |-> FALSE]

\* The working tree fs holds a file at file_name.
Exists(fs, file_name) == file_name \in DOMAIN fs

\* file_path.open() of a rule raises FileNotFoundError: the default mode r
\* needs the file, mode w+ creates it.
OpenRaises(im, fs, file_name) == im = "sostrades" /\ ~Exists(fs, file_name)

\* What the file at file_name holds when a rule opens it: a file that mode
\* w+ creates is empty.
ContentOf(fs, file_name) == IF Exists(fs, file_name) THEN fs[file_name] ELSE <<>>

\* The working tree after a rule left the content c at file_name.
Stored(fs, file_name, c) ==
    [p \in DOMAIN fs \cup {file_name} |-> IF p = file_name THEN c ELSE fs[p]]

\* One pass of the loop body for file_name.
LoopBody(im, d, file_name, added, modified, st) ==
    LET rule == Dispatch(im, file_name, added, modified)
    IN IF rule = "skip" THEN st
       ELSE IF OpenRaises(im, st.fs, file_name) THEN [st EXCEPT !.raised = TRUE]
       ELSE Only({ [LoopState(Stored(st.fs, file_name, res.content),
                              st.changed + PyBool(res.ret),
                              Append(st.log, [path |-> file_name, rule |-> rule,
                                              ret |-> res.ret, wrote |-> res.wrote]))
                       EXCEPT !.raised = res.raised] :
                   res \in { IF rule = "added"
                             THEN check_header_added(im, ContentOf(st.fs, file_name), d)
                             ELSE check_header_modified(im, ContentOf(st.fs, file_name), d) } })

\* for file_name in filenames: ... of sostrades_pre_commit; an exception
\* of the body ends the loop and leaves the files written so far.
RECURSIVE Loop(_, _, _, _, _, _)
Loop(im, d, filenames, added, modified, st) ==
    IF filenames = <<>> \/ st.raised THEN st
    ELSE Only({ Loop(im, d, Tail(filenames), added, modified, after) :
                after \in {LoopBody(im, d, Head(filenames), added, modified, st)} })

\* update_headers of sostrades_pre_commit: return int(files_were_changed)
\* after the loop.
update_headers_sostrades(d, filenames, added, modified, fs) ==
    Only({ [fs |-> st.fs, log |-> st.log,
            ret |-> IF st.raised THEN PyNone ELSE PyInt(st.changed),
            raised |-> st.raised] :
           st \in {Loop("sostrades", d, filenames, added, modified,
                        LoopState(fs, 0, <<>>))} })

\* update_headers of header_updater_hook: the return statement is inside the
\* loop, after the first file name; return None follows the loop.  eqRaises
\* says whether comparing the str with a diff entry raises.
update_headers_hook(d, filenames, added, modified, fs, eqRaises) ==
    IF filenames = <<>>
    THEN [fs |-> fs, log |-> <<>>, ret |-> PyNone, raised |-> FALSE]
    ELSE IF eqRaises /\ added \cup modified # {}
    THEN [fs |-> fs, log |-> <<>>, ret |-> PyNone, raised |-> TRUE]
    ELSE Only({ [fs |-> st.fs, log |-> st.log,
                 ret |-> IF st.raised THEN PyNone ELSE PyInt(st.changed),
                 raised |-> st.raised] :
                st \in {LoopBody("hook", d, Head(filenames), added, modified,
                                 LoopState(fs, 0, <<>>))} })

update_headers(im, d, filenames, added, modified, fs, eqRaises) ==
    IF im = "sostrades"
    THEN update_headers_sostrades(d, filenames, added, modified, fs)
    ELSE update_headers_hook(d, filenames, added, modified, fs, eqRaises)

(* -------------------------------- main --------------------------------- *)

\* int(x) of main, with int(None) never reached: not None is True.
PyNot(v) == IF v = PyNone \/ v = PyInt(0) THEN 1 ELSE 0

\* The status the process ends with: exit(n) keeps the low 8 bits of n; an
\* uncaught exception ends the process with status 1.
ExitStatus(im, run) ==
    IF run.raised THEN 1
    ELSE IF im = "sostrades" THEN run.ret[1] % 256
    ELSE PyNot(run.ret) % 256

(* ------------------------------- state --------------------------------- *)

VARIABLES
    impl,    \* the package the behaviour runs
    today,   \* the day HeaderUpdater.__init__ read from the clock (self.today)
    files,   \* the working tree: path -> content
    diff,    \* the paths of the A and of the M entries of
             \* repo.head.commit.diff(None)
    last,    \* the last call: its arguments, the files before it, its outcome
    track    \* per path: the days the modified-file rule was applied to a
             \* file that began with the origin header (history variable)

vars == <<impl, today, files, diff, last, track>>

\* The content of the files before the first run, made of these segments.
SegBody == <<BODY, NL>>
SegAirbus == airbus_header("sostrades")
SegCap == cap_header("sostrades", 1)
SegModified ==
    HEADER_PATTERN("sostrades",
        Join(<<NL>>, << <<AIRBUS_COPYRIGHT>>,
                        <<MODIFICATIONS_ON, SP, DateStr(0), SP, CAP_COPYRIGHT(YearOf(0))>>,
                        <<>>, <<APACHE>> >>))

\* A modification line alone, outside a header.
SegModifLine ==
    <<MODIFICATIONS_ON, SP, DateStr(0), SP, CAP_COPYRIGHT(YearOf(0)), NL>>

Segments == {SegBody, SegAirbus, SegCap, SegModified, SegModifLine}

RECURSIVE Contents(_)
Contents(n) ==
    IF n = 0 THEN {<<>>}
    ELSE Contents(n - 1) \cup { s \o c : s \in Segments, c \in Contents(n - 1) }

\* The lists of at most n file names of the tree that main() can be given.
RECURSIVE NameLists(_, _)
NameLists(tree, n) ==
    IF n = 0 THEN {<<>>}
    ELSE NameLists(tree, n - 1)
             \cup { <<p>> \o l : p \in tree, l \in NameLists(tree, n - 1) }

\* The A and M entries a diff of the tree can hold: no path is in both.
Diffs(tree) ==
    { ch \in [added : SUBSET tree, modified : SUBSET tree] :
          ch.added \cap ch.modified = {} }

NoCall(fs) ==
    [op |-> "none", names |-> <<>>, added |-> {}, modified |-> {}, pre |-> fs,
     log |-> <<>>, ret |-> PyNone, raised |-> FALSE, exit |-> PyNone,
     repeat |-> FALSE]

OriginTracked(im, c) == im = "sostrades" /\ StartsWith(c, airbus_header("sostrades"))

\* A working tree of one file, of any content of at most MaxSegs segments,
\* with nothing to commit, and a HeaderUpdater constructed on day 1.
Init ==
    /\ impl \in Impls
    /\ today = 1
    /\ files \in [{"a"} -> Contents(MaxSegs)]
    /\ diff = [added |-> {}, modified |-> {}]
    /\ last = NoCall(files)
    /\ track = [p \in DOMAIN files |->
                  [origin |-> OriginTracked(impl, files[p]), days |-> {}]]

\* A working tree with a file at every path: a body without header, a file
\* with the origin header or a file with the header of day 1, any diff
\* against HEAD, and a HeaderUpdater constructed on any day.
InitTree ==
    /\ impl \in Impls
    /\ today \in Days
    /\ files \in [Paths -> {SegBody, SegAirbus \o SegBody, SegCap \o SegBody}]
    /\ diff \in Diffs(DOMAIN files)
    /\ last = NoCall(files)
    /\ track = [p \in DOMAIN files |->
                  [origin |-> OriginTracked(impl, files[p]), days |-> {}]]

\* A working tree where any of the paths may hold no file (never created,
\* or deleted since the diff was taken), any diff against HEAD over the
\* paths, and a HeaderUpdater constructed on any day.
InitIO ==
    /\ impl \in Impls
    /\ today \in Days
    /\ \E tree \in SUBSET Paths :
           files \in [tree -> {SegBody, SegAirbus \o SegBody, SegCap \o SegBody}]
    /\ diff \in Diffs(Paths)
    /\ last = NoCall(files)
    /\ track = [p \in DOMAIN files |->
                  [origin |-> OriginTracked(impl, files[p]), days |-> {}]]

\* The history variable after the rule applications of log, made on day d.
TrackAfter(log, d) ==
    [p \in DOMAIN files |->
        LET mine == { i \in 1..Len(log) : log[i].path = p }
            keep == /\ track[p].origin
                    /\ \A i \in mine : log[i].rule = "modified"
        IN [origin |-> keep,
            days   |-> IF ~keep THEN {}
                       ELSE IF mine = {} THEN track[p].days
                       ELSE track[p].days \cup {d}]]

(* ------------------------------ actions -------------------------------- *)

\* A later day d comes and HeaderUpdater() is constructed: self.today and the
\* headers are those of day d from now on.
Construct(d) ==
    /\ d > today
    /\ today' = d
    /\ last' = [NoCall(files) EXCEPT !.op = "__init__"]
    /\ UNCHANGED <<impl, files, diff, track>>

\* A direct call of one rule on the file p, as the tests make it.
CallRule(rule, p) ==
    \E res \in {IF rule = "added"
                 THEN check_header_added(impl, files[p], today)
                 ELSE check_header_modified(impl, files[p], today)} :
    LET log == << [path |-> p, rule |-> rule, ret |-> res.ret, wrote |-> res.wrote] >>
    IN /\ files' = [files EXCEPT ![p] = res.content]
       /\ last' = [op |-> rule, names |-> <<p>>, added |-> {}, modified |-> {},
                   pre |-> files, log |-> log, ret |-> PyInt(PyBool(res.ret)),
                   raised |-> res.raised, exit |-> PyNone,
                   repeat |-> (last.op = rule /\ last.names = <<p>>)]
       /\ track' = TrackAfter(log, today)
       /\ UNCHANGED <<impl, today, diff>>

CheckHeaderAdded(p) == CallRule("added", p)

CheckHeaderModified(p) == CallRule("modified", p)

\* main(): parse the file names, construct HeaderUpdater, update_headers,
\* exit.  The hook rewrites files of the working tree and leaves the entries
\* of the diff against HEAD as they are.
Main(filenames, eqRaises) ==
    \E run \in {update_headers(impl, today, filenames, diff.added, diff.modified,
                              files, eqRaises)} :
       /\ files' = run.fs
       /\ last' = [op |-> "main", names |-> filenames, added |-> diff.added,
                   modified |-> diff.modified, pre |-> files, log |-> run.log,
                   ret |-> run.ret, raised |-> run.raised,
                   exit |-> PyInt(ExitStatus(impl, run)), repeat |-> FALSE]
       /\ track' = TrackAfter(run.log, today)
       /\ UNCHANGED <<impl, today, diff>>

\* One run of the hook, with any file names: argparse takes the names as
\* they are given, whether or not a file is there.
RunMain ==
    \E filenames \in NameLists(Paths, MaxList) :
        \E eqRaises \in (IF impl = "hook" THEN BOOLEAN ELSE {FALSE}) :
            Main(filenames, eqRaises)

\* The rules called on one file, as the tests call them, over the days.
Next ==
    \/ \E d \in Days : Construct(d)
    \/ \E p \in DOMAIN files : CheckHeaderAdded(p)
    \/ \E p \in DOMAIN files : CheckHeaderModified(p)

Spec == Init /\ [][Next]_vars

\* The hook run, again and again, on a tree of several files.
NextTree == RunMain

SpecTree == InitTree /\ [][NextTree]_vars

\* The hook run, again and again, on a tree where files may be missing.
NextIO == RunMain

SpecIO == InitIO /\ [][NextIO]_vars

(* ------------------------- notions of the claims ----------------------- *)

\* The path of a direct call of a rule.
CalledPath == last.names[1]

\* The last call was a direct call of the rule, made by sostrades_pre_commit.
SostradesCall(rule) == impl = "sostrades" /\ last.op = rule

\* The file names of the last run that are in neither change list.
Untracked(p) == p \notin last.added \cup last.modified

\* The file names of the last run that are in a change list, in their order.
TrackedNames == SelectSeq(last.names, LAMBDA p : ~Untracked(p))

\* The rule the claim C1 gives a tracked path.
RuleOf(p) == IF p \in last.added THEN "added" ELSE "modified"

\* The date field of the first modification line of c: the pieces between
\* the dashes.
DateField(c) == Split(Split(Expand(MatchGroup0(c)), SP)[3], DASH)

\* The date field of c is one date, or two dates.
IsDate(piece) == Len(piece) = 1 /\ piece[1].k = "DATE"
WellFormedDates(c) ==
    /\ Len(DateField(c)) \in {1, 2}
    /\ \A i \in 1..Len(DateField(c)) : IsDate(DateField(c)[i])

\* The latest date of the modification line of c is day d.
LatestDateIs(c, d) ==
    /\ ~NoMatch(c)
    /\ WellFormedDates(c)
    /\ DateField(c)[Len(DateField(c))] = <<DateStr(d)>>

\* c with its first modification line, and nothing else, replaced by line.
WithFirstLine(c, line) ==
    LET i == SetMin(MatchStarts(c))
        j == SetMax(MatchEnds(c, i))
    IN SubSeq(c, 1, i - 1) \o line \o Drop(c, j + 1)

(* -------------------------------- claims ------------------------------- *)

\* C1: update_headers handles every path of the list: the paths of the list
\* that are in a change list are given, in order, to the added-file rule (in
\* Added) or the modified-file rule (in Modified), and the call returns 1 if
\* one of these applications reported a change and 0 otherwise, for lists
\* of any length, the empty list included.
C1_EveryPathHandled ==
    last.op = "main" =>
        /\ ~last.raised
        /\ Len(last.log) = Len(TrackedNames)
        /\ \A i \in 1..Len(last.log) :
              /\ last.log[i].path = TrackedNames[i]
              /\ last.log[i].rule = RuleOf(TrackedNames[i])
        /\ last.ret = PyInt(IF \E i \in 1..Len(last.log) : last.log[i].ret
                            THEN 1 ELSE 0)

\* C2: the added-file rule is idempotent: applied a second time in the same
\* run to the same file, it reports unchanged, does not write, and leaves the
\* content the first application produced.
C2_AddedIdempotent ==
    (last.op = "added" /\ last.repeat) =>
        /\ last.ret = PyInt(0)
        /\ ~last.log[1].wrote
        /\ files = last.pre

\* C3: when the modification line of a file has today as its latest date, a
\* single date equal to today or a range ending today, the modified-file rule
\* reports unchanged and leaves the content as it is.
C3_SameDayIdempotent ==
    ( /\ SostradesCall("modified")
      /\ ~StartsWith(last.pre[CalledPath], airbus_header("sostrades"))
      /\ LatestDateIs(last.pre[CalledPath], today) ) =>
        /\ last.ret = PyInt(0)
        /\ files = last.pre

\* C4: a file that starts with the origin header and has the modified-file
\* rule applied on days d1 < d2 < d3, any number of times on each, carries
\* the date field d1-d3 after the last application: the first date is kept,
\* the second is the day of the latest application.
C4_MonotonicDateRange ==
    \A p \in DOMAIN files :
        (track[p].origin /\ Cardinality(track[p].days) >= 3) =>
            /\ ~NoMatch(files[p])
            /\ DateField(files[p]) = << <<DateStr(SetMin(track[p].days))>>,
                                        <<DateStr(SetMax(track[p].days))>> >>

\* Witness of C4: the rule was applied on three days to a file that began
\* with the origin header, the last time twice in a row.
C4_Witness ==
    /\ SostradesCall("modified")
    /\ last.repeat
    /\ track[CalledPath].origin
    /\ Cardinality(track[CalledPath].days) >= 3

\* C5: main exits with status 0 when the run changed no file, and with a
\* status other than 0 when it changed a file.
C5_ExitCodePolarity ==
    last.op = "main" => (last.exit = PyInt(0) <=> files = last.pre)

\* C6: on a file that starts with the origin header, the modified-file rule
\* reports changed, and the new content is the modified header followed by
\* the rest of the file as it was, whatever the rest holds.
C6_LegacyFile ==
    ( /\ SostradesCall("modified")
      /\ StartsWith(last.pre[CalledPath], airbus_header("sostrades")) ) =>
        /\ last.ret = PyInt(1)
        /\ files[CalledPath] =
               modified_header("sostrades", today)
                   \o Drop(last.pre[CalledPath], Len(airbus_header("sostrades")))

\* C7: on a file that does not start with the origin header and holds a
\* modification line with one date d1, or a range d1-d2 with d2 not today,
\* the modified-file rule reports changed and rewrites that line to
\* Modifications on d1-<today> Copyright <year of today> Capgemini, and
\* leaves every other line of the file as it was.
C7_AlreadyModifiedFile ==
    ( /\ SostradesCall("modified")
      /\ ~StartsWith(last.pre[CalledPath], airbus_header("sostrades"))
      /\ ~NoMatch(last.pre[CalledPath])
      /\ WellFormedDates(last.pre[CalledPath])
      /\ ~( /\ Len(DateField(last.pre[CalledPath])) = 2
            /\ LatestDateIs(last.pre[CalledPath], today) ) ) =>
        /\ last.ret = PyInt(1)
        /\ files[CalledPath] =
               WithFirstLine(last.pre[CalledPath],
                   <<MODIFICATIONS_ON, SP>> \o DateField(last.pre[CalledPath])[1]
                       \o <<DASH, DateStr(today), SP, CAP_COPYRIGHT(YearOf(today))>>)

\* C8: on a file that does not start with the current header, the added-file
\* rule reports changed and the new content is the current header followed
\* by the whole content the file had.
C8_AddedPrepends ==
    ( /\ SostradesCall("added")
      /\ ~StartsWith(last.pre[CalledPath], cap_header("sostrades", today)) ) =>
        /\ last.ret = PyInt(1)
        /\ files[CalledPath] =
               cap_header("sostrades", today) \o last.pre[CalledPath]

\* Witness of C8: the added-file rule was applied to a file that holds text
\* and does not start with the current header.
C8_Witness ==
    /\ SostradesCall("added")
    /\ last.pre[CalledPath] # <<>>
    /\ ~StartsWith(last.pre[CalledPath], cap_header("sostrades", today))

\* C9: a file that starts with the current header is left as it is: the
\* added-file rule reports unchanged and does not write, whatever follows
\* the header, and so does the modified-file rule when the file holds no
\* modification line (it cannot start with the origin header).
C9_CurrentHeaderUntouched ==
    ( /\ impl = "sostrades"
      /\ last.op \in {"added", "modified"}
      /\ StartsWith(last.pre[CalledPath], cap_header("sostrades", today))
      /\ (last.op = "modified" => NoMatch(last.pre[CalledPath])) ) =>
        /\ last.ret = PyInt(0)
        /\ ~last.log[1].wrote
        /\ files = last.pre

\* Witness of C9: the added-file rule was applied to a file that starts with
\* the current header and holds more after it.
C9_Witness ==
    /\ SostradesCall("added")
    /\ StartsWith(last.pre[CalledPath], cap_header("sostrades", today))
    /\ Len(last.pre[CalledPath]) > Len(cap_header("sostrades", today))

\* C10: a listed path that is in neither change list is not read and not
\* written by update_headers, its content is the same after the call, and a
\* list made only of such paths returns 0.
C10_UntrackedUntouched ==
    (impl = "sostrades" /\ last.op = "main") =>
        /\ \A i \in 1..Len(last.names) :
              Untracked(last.names[i]) =>
                  /\ \A h \in 1..Len(last.log) : last.log[h].path # last.names[i]
                  /\ files[last.names[i]] = last.pre[last.names[i]]
        /\ (\A i \in 1..Len(last.names) : Untracked(last.names[i])) =>
               last.ret = PyInt(0)

\* Witness of C10: a run whose list holds an untracked path whose file the
\* modified-file rule would change, and a tracked path whose file changed.
C10_Witness ==
    /\ impl = "sostrades"
    /\ last.op = "main"
    /\ files # last.pre
    /\ \E i \in 1..Len(last.names) :
          /\ Untracked(last.names[i])
          /\ StartsWith(files[last.names[i]], airbus_header("sostrades"))

\* C11: when a listed path holds no file that can be opened, update_headers
\* ends in an error: no run with such a path in its list returns a value.
C11_IOFailureNotSwallowed ==
    ( /\ impl = "sostrades"
      /\ last.op = "main"
      /\ \E i \in 1..Len(last.names) : ~Exists(last.pre, last.names[i]) ) =>
        last.raised

====
